---- MODULE Spec2Model ----
(***************************************************************************)
(* Model of vcd_port_mapper.py: VCDProcessor and main.                     *)
(*                                                                         *)
(* Text is a sequence of items.  An item is a whitespace character         *)
(* (" ", "\t", "\n") or a token, i.e. a maximal run of non-whitespace      *)
(* characters, written as a string.  Two tokens are never adjacent.        *)
(* A file is the flat text; readlines and writelines convert between the   *)
(* flat text and the list of lines exactly as the file object does.        *)
(* Newline translation of the platform's file layer is not modelled: a     *)
(* line ends with "\n" or, for the last line only, with nothing.           *)
(***************************************************************************)
EXTENDS Integers, Sequences, FiniteSets, TLC

VARIABLES
    vcd_file,       \* text of the input trace
    rtl_files,      \* RTL files in the order the directory glob lists them
    pc,             \* position in main (or in the direct use of update_vcd_file)
    vcd_modules,    \* result of extract_vcd_modules
    extract_scopes, \* value of extract_vcd_modules' current_module after each line
    instance_map,   \* dict instance name -> module type
    rtl_modules,    \* dict module -> dict port -> direction
    output_file,    \* text written by update_vcd_file
    update_count,   \* update_vcd_file's counter
    update_log,     \* per input line: current_module after the line, and whether it was rewritten
    success,        \* value returned by update_vcd_file
    second_file,    \* text written by update_vcd_file run on output_file
    exit_status     \* value returned by main

vars == <<vcd_file, rtl_files, pc, vcd_modules, extract_scopes, instance_map,
          rtl_modules, output_file, update_count, update_log, success,
          second_file, exit_status>>

None == "None"

Directions == {"input", "output", "inout"}

\* ---------------------------------------------------------------- bounds
MaxLines == 4
MaxMainLines == 4

\* ------------------------------------------------------------ text layer
Whitespace == {" ", "\t", "\n"}

EmptyDict == <<>>

\* Tokens of the vocabulary that extend another token: <<t, p>> means that
\* the characters of t start with the characters of p.
ProperPrefix == {<<"$vars", "$var">>}

HasPrefix(tok, p) == tok = p \/ <<tok, p>> \in ProperPrefix

RECURSIVE LStrip(_)
LStrip(s) ==
    IF s # <<>> /\ Head(s) \in Whitespace THEN LStrip(Tail(s)) ELSE s

RECURSIVE RStrip(_)
RStrip(s) ==
    IF s # <<>> /\ s[Len(s)] \in Whitespace
    THEN RStrip(SubSeq(s, 1, Len(s) - 1))
    ELSE s

\* str.strip()
strip(s) == RStrip(LStrip(s))

IsToken(x) == x \notin Whitespace

\* str.split(): the tokens, in order
split(s) == SelectSeq(s, IsToken)

\* ' '.join(parts)
RECURSIVE join(_)
join(parts) ==
    IF parts = <<>> THEN <<>>
    ELSE IF Len(parts) = 1 THEN parts
    ELSE <<Head(parts), " ">> \o join(Tail(parts))

FirstNewline(text) ==
    IF \E i \in 1..Len(text) : text[i] = "\n"
    THEN CHOOSE i \in 1..Len(text) :
            text[i] = "\n" /\ \A j \in 1..(i - 1) : text[j] # "\n"
    ELSE 0

\* f.readlines(): every line keeps its "\n"; a last line without one is kept too
RECURSIVE readlines(_)
readlines(text) ==
    IF text = <<>> THEN <<>>
    ELSE LET n == FirstNewline(text) IN
         IF n = 0 THEN <<text>>
         ELSE <<SubSeq(text, 1, n)>> \o readlines(SubSeq(text, n + 1, Len(text)))

\* f.writelines(lines)
RECURSIVE writelines(_)
writelines(lines) ==
    IF lines = <<>> THEN <<>> ELSE Head(lines) \o writelines(Tail(lines))

\* stripped.startswith('$scope module')
StartsWithScopeModule(s) ==
    /\ Len(s) >= 3
    /\ s[1] = "$scope"
    /\ s[2] = " "
    /\ HasPrefix(s[3], "module")

\* stripped.startswith('$var')
StartsWithVar(s) == Len(s) >= 1 /\ HasPrefix(s[1], "$var")

\* stripped.startswith('$upscope')
StartsWithUpscope(s) == Len(s) >= 1 /\ HasPrefix(s[1], "$upscope")

\* dict.get(key, default)
DictGet(d, k, default) == IF k \in DOMAIN d THEN d[k] ELSE default

\* d[k] = v
DictSet(d, k, v) == [x \in (DOMAIN d) \cup {k} |-> IF x = k THEN v ELSE d[x]]

\* --------------------------------------------------- extract_vcd_modules
\* One iteration of the loop over the lines; st = [modules, hierarchy,
\* current_module, scopes], scopes being the history of current_module.
ExtractLine(st, raw) ==
    LET line == strip(raw)
        parts == split(line)
        nxt ==
            IF StartsWithScopeModule(line)
            THEN IF Len(parts) >= 3
                 THEN [st EXCEPT !.hierarchy = Append(@, parts[3]),
                                 !.current_module = parts[3],
                                 !.modules = @ \cup {parts[3]}]
                 ELSE st
            ELSE IF StartsWithUpscope(line)
            THEN IF st.hierarchy # <<>>
                 THEN LET h == SubSeq(st.hierarchy, 1, Len(st.hierarchy) - 1) IN
                      [st EXCEPT !.hierarchy = h,
                                 !.current_module =
                                     IF h # <<>> THEN h[Len(h)] ELSE None]
                 ELSE st
            ELSE st
    IN [nxt EXCEPT !.scopes = Append(@, nxt.current_module)]

RECURSIVE ExtractLoop(_, _)
ExtractLoop(st, lines) ==
    IF lines = <<>> THEN st
    ELSE ExtractLoop(ExtractLine(st, Head(lines)), Tail(lines))

extract_vcd_modules(text) ==
    ExtractLoop([modules |-> {}, hierarchy |-> <<>>, current_module |-> None,
                 scopes |-> <<>>],
                readlines(text))

\* ------------------------------------------------------- update_vcd_file
\* Variant: the rewritten line is appended without its line terminator.
RewrittenLine_NoNewline(parts, new_type) ==
    join([parts EXCEPT ![2] = new_type])

\* Variant: a terminator is added to a line that still carries its own
\* (the tokens taken from the unstripped line).
RewrittenLine_TwoNewlines(parts, new_type) ==
    join([parts EXCEPT ![2] = new_type]) \o <<"\n", "\n">>

\* The text appended for a $var line that matches a port.
RewrittenLine(parts, new_type) ==
    join([parts EXCEPT ![2] = new_type]) \o <<"\n">>

\* Variant: every line is rebuilt from its tokens, not only the rewritten ones.
PassThrough_Rejoined(line) == join(split(strip(line))) \o <<"\n">>

\* The text appended for every other line: the line as read.
PassThrough(line) == line

\* Whether the $var branch replaces the line (and skips the final append).
Matches(parts, current_module, imap, rtl) ==
    /\ Len(parts) >= 5
    /\ LET actual_module == DictGet(imap, current_module, current_module) IN
       /\ actual_module \in DOMAIN rtl
       /\ parts[5] \in DOMAIN rtl[actual_module]

\* $upscope sets the current module
ScopeAfterUpscope(current_module) == None

\* One iteration of the loop over the lines; st = [updated_lines,
\* current_module, update_count, log].
UpdateLine(st, line, imap, rtl) ==
    LET stripped == strip(line)
        parts == split(stripped)
        isScope == StartsWithScopeModule(stripped)
        isVar == ~isScope /\ StartsWithVar(stripped) /\ st.current_module # None
        isUp == ~isScope /\ ~isVar /\ StartsWithUpscope(stripped)
        cur == IF isScope /\ Len(parts) >= 3 THEN parts[3]
               ELSE IF isUp THEN ScopeAfterUpscope(st.current_module)
               ELSE st.current_module
        hit == isVar /\ Matches(parts, st.current_module, imap, rtl)
        actual_module == DictGet(imap, st.current_module, st.current_module)
    IN [updated_lines |->
            Append(st.updated_lines,
                   IF hit THEN RewrittenLine(parts, rtl[actual_module][parts[5]])
                   ELSE PassThrough(line)),
        current_module |-> cur,
        update_count |-> IF hit THEN st.update_count + 1 ELSE st.update_count,
        log |-> Append(st.log, [current_module |-> cur, rewritten |-> hit])]

RECURSIVE UpdateLoop(_, _, _, _)
UpdateLoop(st, lines, imap, rtl) ==
    IF lines = <<>> THEN st
    ELSE UpdateLoop(UpdateLine(st, Head(lines), imap, rtl), Tail(lines), imap, rtl)

\* The whole of update_vcd_file: [text written, update_count, log, result]
update_vcd_file(text, imap, rtl) ==
    LET st == UpdateLoop([updated_lines |-> <<>>, current_module |-> None,
                          update_count |-> 0, log |-> <<>>],
                         readlines(text), imap, rtl)
    IN [output |-> writelines(st.updated_lines),
        update_count |-> st.update_count,
        log |-> st.log,
        result |-> st.update_count > 0]

\* ------------------------------------------------------- inputs: traces
Line(body) == body \o <<"\n">>

ScopeTop == <<"$scope", " ", "module", " ", "top", " ", "$end">>
ScopeInst == <<"$scope", " ", "module", " ", "u_add0", " ", "$end">>
ScopeAdder == <<"$scope", " ", "module", " ", "adder", " ", "$end">>
Upscope == <<"$upscope", " ", "$end">>
VarSum == <<"$var", " ", "wire", " ", "1", " ", "!", " ", "sum", " ", "$end">>
VarSumIndented ==
    <<" ", "$var", " ", " ", "wire", "\t", "1", " ", "!", " ", "sum", " ",
      "[3:0]", " ", "$end">>
VarDotted ==
    <<"$var", " ", "wire", " ", "1", " ", "!", " ", "u_add0.sum", " ", "$end">>
VarShort == <<"$var", " ", "wire", " ", "1">>
Timestamp == <<"#0">>

\* Lines offered to update_vcd_file used alone
RewriteLibrary ==
    {ScopeTop, ScopeInst, Upscope, VarSum, VarSumIndented, VarShort, Timestamp}

\* Lines of the traces main is run on
MainLibrary == {ScopeInst, ScopeAdder, Upscope, VarSum, VarDotted}

BodiesUpTo(lib, n) == UNION {[1..k -> lib] : k \in 1..n}

\* Every line but possibly the last ends with "\n".
TextOf(bodies, finalNewline) ==
    LET n == Len(bodies)
        all == writelines([i \in 1..n |-> Line(bodies[i])])
    IN IF finalNewline THEN all ELSE SubSeq(all, 1, Len(all) - 1)

Traces(lib, n) ==
    {TextOf(b, nl) : b \in BodiesUpTo(lib, n), nl \in BOOLEAN}

\* Instance maps and port maps handed directly to update_vcd_file
RewriteMaps ==
    { [imap |-> EmptyDict,
       rtl |-> [m \in {"u_add0"} |-> [p \in {"sum"} |-> "inout"]]],
      [imap |-> [s \in {"u_add0", "top"} |-> IF s = "top" THEN "top" ELSE "adder"],
       rtl |-> [m \in {"adder", "top"} |->
                   [p \in {"sum"} |-> IF m = "top" THEN "input" ELSE "output"]]] }

\* ------------------------------------------- update_vcd_file used alone
InitRewrite ==
    /\ vcd_file \in Traces(RewriteLibrary, MaxLines)
    /\ \E m \in RewriteMaps : instance_map = m.imap /\ rtl_modules = m.rtl
    /\ rtl_files = <<>>
    /\ pc = "update"
    /\ vcd_modules = {}
    /\ extract_scopes = <<>>
    /\ output_file = <<>>
    /\ update_count = 0
    /\ update_log = <<>>
    /\ success = FALSE
    /\ second_file = <<>>
    /\ exit_status = None

\* update_vcd_file(vcd_file, output_file, rtl_modules, instance_map)
UpdateVcdFile ==
    /\ pc = "update"
    /\ LET r == update_vcd_file(vcd_file, instance_map, rtl_modules) IN
       /\ output_file' = r.output
       /\ update_count' = r.update_count
       /\ update_log' = r.log
       /\ success' = r.result
    /\ pc' = "updated"
    /\ UNCHANGED <<vcd_file, rtl_files, vcd_modules, extract_scopes,
                   instance_map, rtl_modules, second_file, exit_status>>

\* update_vcd_file run again, on the file the first run wrote
UpdateVcdFileAgain ==
    /\ pc = "updated"
    /\ second_file' = update_vcd_file(output_file, instance_map, rtl_modules).output
    /\ pc' = "updated_twice"
    /\ UNCHANGED <<vcd_file, rtl_files, vcd_modules, extract_scopes,
                   instance_map, rtl_modules, output_file, update_count,
                   update_log, success, exit_status>>

NextRewrite == UpdateVcdFile \/ UpdateVcdFileAgain

SpecRewrite == InitRewrite /\ [][NextRewrite]_vars

\* -------------------------------------------------------------- RTL text
\* An RTL file is what the two regular expressions of the scan find in it:
\* modules, the matches of module_pattern in order, each with the lines of
\* text from its header to its endmodule; and insts, the matches of
\* instantiation_pattern in order, as <<module_type, instance_name>>.
\* A line of RTL text is a sequence of words and punctuation; words are in
\* lower case, so that IGNORECASE and lower() change nothing.
SkipKeywords ==
    {"if", "else", "begin", "end", "case", "generate", "initial", "always",
     "assign", "function", "task", "for", "while", "repeat", "forever", "wait",
     "disable", "assert", "assume", "cover", "property", "sequence", "logic",
     "reg", "wire", "input", "output", "inout", "parameter", "localparam",
     "typedef", "struct", "enum", "package", "class", "program", "interface",
     "modport", "clocking"}

PortTypes == {"wire", "reg", "logic"}

NotPortNames == {"wire", "reg", "logic", "input", "output", "inout"}

Punctuation == {"(", ")", ",", ";", "="}

IsRange(x) == x \in {"[3:0]"}

\* \w+
IsWord(x) == x \notin Punctuation /\ ~IsRange(x) /\ x \notin {".a(x)", ".sum(z)"}

RECURSIVE SkipRanges(_, _)
SkipRanges(line, j) ==
    IF j <= Len(line) /\ IsRange(line[j]) THEN SkipRanges(line, j + 1) ELSE j

\* The positions after the optional type of a declaration starting at i, in
\* the order the alternation (?:wire\s+|reg\s+|logic\s+|) tries them.
AfterType(line, i) ==
    IF i + 2 <= Len(line) /\ line[i + 1] \in PortTypes
          /\ line[i + 2] \notin Punctuation
    THEN <<i + 2, i + 1>>
    ELSE <<i + 1>>

\* port_pattern anchored at i with the name at position k
PortPatternNameAt(line, k) ==
    /\ k <= Len(line)
    /\ IsWord(line[k])
    /\ (k = Len(line) \/ line[k + 1] \in {",", ";"})

\* port_pattern matched at position i: <<direction, port_name>>, or <<>>
PortPatternAt(line, i) ==
    IF line[i] \notin Directions THEN <<>>
    ELSE LET starts == AfterType(line, i)
             ok(n) == PortPatternNameAt(line, SkipRanges(line, starts[n]))
         IN IF ok(1) THEN <<line[i], line[SkipRanges(line, starts[1])]>>
            ELSE IF Len(starts) = 2 /\ ok(2)
            THEN <<line[i], line[SkipRanges(line, starts[2])]>>
            ELSE <<>>

\* re.search(port_pattern, line): the match with the leftmost start at or after i
RECURSIVE SearchPort(_, _)
SearchPort(line, i) ==
    IF i > Len(line) THEN <<>>
    ELSE IF PortPatternAt(line, i) # <<>> THEN PortPatternAt(line, i)
    ELSE SearchPort(line, i + 1)

\* The run of [\w\s,]+ starting at position k: the words and commas up to the
\* first other character
RECURSIVE WordRun(_, _)
WordRun(line, k) ==
    IF k <= Len(line) /\ (IsWord(line[k]) \/ line[k] = ",")
    THEN <<line[k]>> \o WordRun(line, k + 1)
    ELSE <<>>

\* multi_port_pattern matched at position i: <<direction, run>>, or <<>>
MultiPatternAt(line, i) ==
    IF line[i] \notin Directions THEN <<>>
    ELSE LET starts == AfterType(line, i)
             run(n) == WordRun(line, SkipRanges(line, starts[n]))
         IN IF run(1) # <<>> THEN <<line[i], run(1)>>
            ELSE IF Len(starts) = 2 /\ run(2) # <<>> THEN <<line[i], run(2)>>
            ELSE <<>>

\* re.search(multi_port_pattern, line): the match with the leftmost start at or
\* after i
RECURSIVE SearchMulti(_, _)
SearchMulti(line, i) ==
    IF i > Len(line) THEN <<>>
    ELSE IF MultiPatternAt(line, i) # <<>> THEN MultiPatternAt(line, i)
    ELSE SearchMulti(line, i + 1)

\* port_names_str.split(','), each piece stripped: the words of each piece
RECURSIVE SplitCommas(_, _)
SplitCommas(run, piece) ==
    IF run = <<>> THEN <<piece>>
    ELSE IF Head(run) = "," THEN <<piece>> \o SplitCommas(Tail(run), <<>>)
    ELSE SplitCommas(Tail(run), Append(piece, Head(run)))

\* The characters of a piece: its words with the blanks between them
RECURSIVE PieceName(_)
PieceName(piece) ==
    IF piece = <<>> THEN ""
    ELSE IF Len(piece) = 1 THEN piece[1]
    ELSE piece[1] \o " " \o PieceName(Tail(piece))

RECURSIVE AddPieces(_, _, _)
AddPieces(ports, pieces, direction) ==
    IF pieces = <<>> THEN ports
    ELSE LET port_name == PieceName(Head(pieces)) IN
         AddPieces(IF port_name # "" /\ port_name \notin NotPortNames
                   THEN DictSet(ports, port_name, direction)
                   ELSE ports,
                   Tail(pieces), direction)

\* One iteration of the loop over the lines of the module content
PortsOfLine(ports, line) ==
    IF line = <<>> THEN ports
    ELSE LET match == SearchPort(line, 1)
             multi_match == SearchMulti(line, 1)
         IN IF match # <<>> /\ match[2] \notin NotPortNames
            THEN DictSet(ports, match[2], match[1])
            ELSE IF multi_match # <<>>
            THEN AddPieces(ports, SplitCommas(multi_match[2], <<>>), multi_match[1])
            ELSE ports

RECURSIVE PortsOfLines(_, _)
PortsOfLines(ports, lines) ==
    IF lines = <<>> THEN ports
    ELSE PortsOfLines(PortsOfLine(ports, Head(lines)), Tail(lines))

\* _extract_ports_simple(content, module_name): the text from the first
\* "module <module_name>" of the file to the next endmodule
extract_ports_simple(file, module_name) ==
    IF \A k \in 1..Len(file.modules) : file.modules[k].name # module_name
    THEN EmptyDict
    ELSE LET k == CHOOSE k \in 1..Len(file.modules) :
                     /\ file.modules[k].name = module_name
                     /\ \A j \in 1..(k - 1) : file.modules[j].name # module_name
         IN PortsOfLines(EmptyDict, file.modules[k].lines)

\* -------------------------------------------- discover_instance_mapping
ModuleNames(file) == {file.modules[k].name : k \in 1..Len(file.modules)}

\* Whether an instantiation found in a file is recorded in the map
MapsInstantiation(module_type, instance_name, all_rtl_modules, vcdmods) ==
    module_type \in all_rtl_modules /\ instance_name \in vcdmods

RECURSIVE DiscoverInsts(_, _, _, _)
DiscoverInsts(imap, insts, all_rtl_modules, vcdmods) ==
    IF insts = <<>> THEN imap
    ELSE LET module_type == Head(insts)[1]
             instance_name == Head(insts)[2]
         IN DiscoverInsts(
                IF module_type \notin SkipKeywords
                   /\ MapsInstantiation(module_type, instance_name,
                                        all_rtl_modules, vcdmods)
                THEN DictSet(imap, instance_name, module_type)
                ELSE imap,
                Tail(insts), all_rtl_modules, vcdmods)

\* The loop over the files; st = [instance_map, all_rtl_modules]
RECURSIVE DiscoverFiles(_, _, _)
DiscoverFiles(st, files, vcdmods) ==
    IF files = <<>> THEN st
    ELSE LET all == st.all_rtl_modules \cup ModuleNames(Head(files)) IN
         DiscoverFiles([instance_map |->
                            DiscoverInsts(st.instance_map, Head(files).insts,
                                          all, vcdmods),
                        all_rtl_modules |-> all],
                       Tail(files), vcdmods)

\* Variant: the loop over the direct matches is left out.
DirectMatches_None(imap, all_rtl_modules, vcdmods) == imap

\* The loop "for modules that are not instances (direct matches)"
DirectMatches(imap, all_rtl_modules, vcdmods) ==
    LET direct == {v \in vcdmods : v \in all_rtl_modules /\ v \notin DOMAIN imap}
    IN [x \in (DOMAIN imap) \cup direct |-> IF x \in direct THEN x ELSE imap[x]]

discover_instance_mapping(files, vcdmods) ==
    IF files = <<>> THEN EmptyDict
    ELSE LET st == DiscoverFiles([instance_map |-> EmptyDict,
                                  all_rtl_modules |-> {}], files, vcdmods)
         IN DirectMatches(st.instance_map, st.all_rtl_modules, vcdmods)

\* ------------------------------------------------------ find_rtl_modules
DictValues(d) == {d[k] : k \in DOMAIN d}

\* The loop over the module definitions of one file
RECURSIVE FindInFile(_, _, _, _)
FindInFile(found, file, k, target_modules) ==
    IF k > Len(file.modules) THEN found
    ELSE LET module_name == file.modules[k].name
             ports == extract_ports_simple(file, module_name)
         IN FindInFile(IF module_name \in target_modules /\ ports # EmptyDict
                       THEN DictSet(found, module_name, ports)
                       ELSE found,
                       file, k + 1, target_modules)

RECURSIVE FindInFiles(_, _, _)
FindInFiles(found, files, target_modules) ==
    IF files = <<>> THEN found
    ELSE FindInFiles(FindInFile(found, Head(files), 1, target_modules),
                     Tail(files), target_modules)

find_rtl_modules(files, imap) == FindInFiles(EmptyDict, files, DictValues(imap))

\* ---------------------------------------------------- inputs: RTL files
\* module adder(input a, input b, output sum);
AdderOneLine ==
    [name |-> "adder",
     lines |-> << <<"module", "adder", "(", "input", "a", ",", "input", "b", ",",
                    "output", "sum", ")", ";">>,
                  <<"assign", "sum", "=", "a", ";">> >>]

\* the same module with one port on each line of the header
AdderPerLine ==
    [name |-> "adder",
     lines |-> << <<"module", "adder", "(">>,
                  <<"input", "wire", "[3:0]", "a", ",">>,
                  <<"input", "b", ",">>,
                  <<"output", "sum">>,
                  <<")", ";">>,
                  <<>>,
                  <<"assign", "sum", "=", "a", ";">> >>]

\* module top(output sum); adder u_add0(.a(x), .sum(z));
Top ==
    [name |-> "top",
     lines |-> << <<"module", "top", "(", "output", "sum", ")", ";">>,
                  <<"adder", "u_add0", "(", ".a(x)", ",", ".sum(z)", ")", ";">> >>]

AdderV == [modules |-> <<AdderOneLine>>, insts |-> <<>>]
AdderSv == [modules |-> <<AdderPerLine>>, insts |-> <<>>]
TopV == [modules |-> <<Top>>, insts |-> << <<"adder", "u_add0">> >>]
DesignV ==
    [modules |-> <<Top, AdderPerLine>>,
     insts |-> << <<"assign", "u_add0">>, <<"adder", "u_add0">> >>]

\* The file lists the glob can produce for the directories considered
RtlDirectories ==
    { <<>>, <<AdderV, TopV>>, <<TopV, AdderV>>, <<AdderSv, TopV>>,
      <<TopV, AdderSv>>, <<DesignV>>, <<AdderSv>>, <<TopV>> }

\* ------------------------------------------------------------------ main
Init ==
    /\ vcd_file \in {TextOf(b, TRUE) : b \in BodiesUpTo(MainLibrary, MaxMainLines)}
    /\ rtl_files \in RtlDirectories
    /\ pc = "extract"
    /\ vcd_modules = {}
    /\ extract_scopes = <<>>
    /\ instance_map = EmptyDict
    /\ rtl_modules = EmptyDict
    /\ output_file = <<>>
    /\ update_count = 0
    /\ update_log = <<>>
    /\ success = FALSE
    /\ second_file = <<>>
    /\ exit_status = None

\* Step 1: vcd_modules = extract_vcd_modules(vcd_file), and the check after it
ExtractVcdModules ==
    /\ pc = "extract"
    /\ LET r == extract_vcd_modules(vcd_file) IN
       /\ vcd_modules' = r.modules
       /\ extract_scopes' = r.scopes
       /\ IF r.modules = {}
          THEN pc' = "returned_early" /\ exit_status' = 1
          ELSE pc' = "discover" /\ UNCHANGED exit_status
    /\ UNCHANGED <<vcd_file, rtl_files, instance_map, rtl_modules, output_file,
                   update_count, update_log, success, second_file>>

\* Step 2: instance_map = discover_instance_mapping(rtl, vcd_modules)
DiscoverInstanceMapping ==
    /\ pc = "discover"
    /\ LET m == discover_instance_mapping(rtl_files, vcd_modules) IN
       /\ instance_map' = m
       /\ IF m = EmptyDict
          THEN pc' = "returned_early" /\ exit_status' = 1
          ELSE pc' = "find" /\ UNCHANGED exit_status
    /\ UNCHANGED <<vcd_file, rtl_files, vcd_modules, extract_scopes, rtl_modules,
                   output_file, update_count, update_log, success, second_file>>

\* Step 3: rtl_modules = find_rtl_modules(rtl, vcd_modules, instance_map)
FindRtlModules ==
    /\ pc = "find"
    /\ LET m == find_rtl_modules(rtl_files, instance_map) IN
       /\ rtl_modules' = m
       /\ IF m = EmptyDict
          THEN pc' = "returned_early" /\ exit_status' = 1
          ELSE pc' = "update" /\ UNCHANGED exit_status
    /\ UNCHANGED <<vcd_file, rtl_files, vcd_modules, extract_scopes, instance_map,
                   output_file, update_count, update_log, success, second_file>>

\* return 0 if success else 1
MainReturn ==
    /\ pc = "updated"
    /\ exit_status' = IF success THEN 0 ELSE 1
    /\ pc' = "returned"
    /\ UNCHANGED <<vcd_file, rtl_files, vcd_modules, extract_scopes, instance_map,
                   rtl_modules, output_file, update_count, update_log, success,
                   second_file>>

Next ==
    \/ ExtractVcdModules
    \/ DiscoverInstanceMapping
    \/ FindRtlModules
    \/ UpdateVcdFile
    \/ MainReturn

Spec == Init /\ [][Next]_vars

\* ================================================================ claims
InLines == readlines(vcd_file)
OutLines == readlines(output_file)

\* update_vcd_file has run on vcd_file
Updated == pc \in {"updated", "updated_twice", "returned"}

\* A line the rewrite treats as a $var line: its text, stripped, starts with $var
IsVarLine(line) == StartsWithVar(strip(line))

\* Position in the line of its n-th token
TokenIndex(line, n) ==
    CHOOSE k \in 1..Len(line) :
        /\ IsToken(line[k])
        /\ Cardinality({j \in 1..k : IsToken(line[j])}) = n

\* The two lines are the same but for the declared-type token
OnlyTypeDiffers(a, b) ==
    /\ Len(a) = Len(b)
    /\ \A k \in 1..Len(a) : a[k] # b[k] => k = TokenIndex(a, 2)

\* Scope that owns each line according to the hierarchy stack
OwnerScopes == extract_vcd_modules(vcd_file).scopes

\* C1: the text written by update_vcd_file has exactly as many lines as the
\* input text, for every trace, instance map and port map.
C1_LineCountInvariance ==
    Updated => Len(OutLines) = Len(InLines)

\* C1 witness: a run that rewrote two lines, the last of which had no line
\* terminator in the input.
C1_Witness ==
    /\ pc = "updated"
    /\ update_count >= 2
    /\ vcd_file[Len(vcd_file)] # "\n"
    /\ update_log[Len(update_log)].rewritten

\* C2: every input line that is not a $var line is written unchanged at the
\* same index.
C2_NonVarLinesUnchanged ==
    Updated =>
        LET ins == InLines
            outs == OutLines
        IN \A i \in 1..Len(ins) :
               ~IsVarLine(ins[i]) => i <= Len(outs) /\ outs[i] = ins[i]

\* C2 witness: a non-$var line without terminator follows a rewritten line.
C2_Witness ==
    /\ pc = "updated"
    /\ Len(InLines) >= 3
    /\ update_log[Len(update_log) - 1].rewritten
    /\ ~IsVarLine(InLines[Len(InLines)])
    /\ vcd_file[Len(vcd_file)] # "\n"

\* C3: a rewritten $var line differs from the input line only in its
\* declared-type token; indentation, spacing, the other tokens and the line
\* terminator are those of the input line.
C3_RewriteChangesOnlyType ==
    Updated =>
        LET ins == InLines
            outs == OutLines
        IN \A i \in 1..Len(ins) :
               update_log[i].rewritten =>
                   i <= Len(outs) /\ OnlyTypeDiffers(ins[i], outs[i])

\* C4: every $var line whose owning scope (top of the hierarchy stack)
\* resolves through the instance map to a module of the port map that
\* declares the signal name is written with that port's direction as its
\* declared type, and the direction is input, output or inout.
C4_PortDirectionFidelity ==
    Updated =>
        \A i \in 1..Len(InLines) :
            LET parts == split(strip(InLines[i]))
                owner == OwnerScopes[i]
            IN (/\ IsVarLine(InLines[i])
                /\ Len(parts) >= 5
                /\ owner \in DOMAIN instance_map
                /\ instance_map[owner] \in DOMAIN rtl_modules
                /\ parts[5] \in DOMAIN rtl_modules[instance_map[owner]])
               => /\ i <= Len(OutLines)
                  /\ split(OutLines[i])[2] = rtl_modules[instance_map[owner]][parts[5]]
                  /\ split(OutLines[i])[2] \in Directions

\* C5: update_vcd_file run on its own output, with the same maps, writes
\* that output again.
C5_RewriteIdempotent ==
    pc = "updated_twice" => second_file = output_file

\* C5 witness: the second run has ended after a first run that changed the text.
C5_Witness ==
    /\ pc = "updated_twice"
    /\ update_count >= 1
    /\ output_file # vcd_file

\* The scenario of C6: adder defined on one line, instantiated as u_add0 in
\* top, and the trace declaring u_add0.sum inside scope u_add0.
ScenarioTrace == TextOf(<<ScopeInst, VarDotted, Upscope>>, TRUE)

ScenarioExpected ==
    TextOf(<<ScopeInst,
             <<"$var", " ", "output", " ", "1", " ", "!", " ", "u_add0.sum", " ",
               "$end">>,
             Upscope>>, TRUE)

\* C6: in the scenario main ends with the line of u_add0.sum rewritten to
\* output, every other line unchanged, and an update count of 1.
C6_DottedNameRewritten ==
    (/\ pc \in {"returned", "returned_early"}
     /\ vcd_file = ScenarioTrace
     /\ rtl_files = <<AdderV, TopV>>)
    => output_file = ScenarioExpected /\ update_count = 1

\* C7: when scopes, instance map and port map are all non-empty and no $var
\* line matches a port, main returns exit status 0.
C7_ZeroUpdatesSucceed ==
    (/\ pc = "returned"
     /\ vcd_modules # {}
     /\ instance_map # EmptyDict
     /\ rtl_modules # EmptyDict
     /\ update_count = 0)
    => exit_status = 0

AllInstantiations ==
    UNION {{rtl_files[f].insts[k] : k \in 1..Len(rtl_files[f].insts)} :
           f \in 1..Len(rtl_files)}

KnownModules == UNION {ModuleNames(rtl_files[f]) : f \in 1..Len(rtl_files)}

\* C8: after discover_instance_mapping, every instantiation whose module
\* type is defined in some scanned file and whose instance name is an
\* observed scope has an entry in the instance map, valued with the module
\* type of such an instantiation, whatever the order of the files.
C8_MappingIndependentOfFileOrder ==
    pc \notin {"extract", "discover"} =>
        \A inst \in AllInstantiations :
            (/\ inst[1] \notin SkipKeywords
             /\ inst[1] \in KnownModules
             /\ inst[2] \in vcd_modules)
            => /\ inst[2] \in DOMAIN instance_map
               /\ \E other \in AllInstantiations :
                      /\ other[2] = inst[2]
                      /\ other[1] \in KnownModules
                      /\ instance_map[inst[2]] = other[1]

\* Number of scope-open lines minus number of scope-close lines among the
\* first i lines
Depth(lines, i) ==
    Cardinality({j \in 1..i : StartsWithScopeModule(strip(lines[j]))})
        - Cardinality({j \in 1..i : StartsWithUpscope(strip(lines[j]))})

Balanced(lines) ==
    /\ \A i \in 1..Len(lines) : Depth(lines, i) >= 0
    /\ Depth(lines, Len(lines)) = 0

\* C9: on a trace with balanced scopes, after every line the current scope
\* of update_vcd_file equals the current scope of extract_vcd_modules.
C9_SameCurrentScope ==
    (Updated /\ Balanced(InLines)) =>
        \A i \in 1..Len(InLines) :
            update_log[i].current_module = extract_scopes[i]

\* C10: in a run of main, no $var line is rewritten while the current scope
\* has no entry in the instance map.
C10_NoRewriteInUnmappedScope ==
    Updated =>
        \A i \in 1..Len(update_log) :
            update_log[i].rewritten =>
                update_log[i].current_module \in DOMAIN instance_map

\* C10 witness: main's rewrite met a $var line naming a port inside a scope
\* that has no entry in the instance map, left it alone, and rewrote another
\* line.
C10_Witness ==
    /\ pc = "updated"
    /\ \E i \in 1..Len(InLines) :
          /\ IsVarLine(InLines[i])
          /\ split(InLines[i])[5] = "sum"
          /\ update_log[i].current_module # None
          /\ update_log[i].current_module \notin DOMAIN instance_map
          /\ ~update_log[i].rewritten
    /\ \E j \in 1..Len(InLines) : update_log[j].rewritten

====
